---- MODULE Spec2Model ----
(***************************************************************************)
(* diraloguer: the tracked terminal (TrackedTerm) and the Directory        *)
(* selection loop of src/src/lib.rs.                                       *)
(*                                                                         *)
(* TrackedTerm(Term, usize, usize) is modelled as the record `term`:       *)
(*   lines_written        self.1                                           *)
(*   net_up_displacement  self.2                                           *)
(*   cursor, page_start, log_damaged, calls: the screen behind self.0, as  *)
(*     far as the operations can be observed on it (the row of the real    *)
(*     cursor, the row where the current page began, whether a row above   *)
(*     that row was erased or overwritten, and the primitive calls the     *)
(*     operation in progress has issued to console::Term; in the Directory *)
(*     loop also its println! and its call of an item's exec, in order)    *)
(*   faults, failed: the results (Err or not) of the coming primitive      *)
(*     calls, and how many calls of the operation in progress returned Err *)
(*   only_written, written: whether nothing but writing was done since the *)
(*     last reset, and if so how many lines were written since then        *)
(*   panic                "" while the process runs, else what aborted it  *)
(*   wrapped              an arithmetic operation has wrapped around       *)
(*                                                                         *)
(* The Directory values are the records dirs[d] with the fields of struct  *)
(* Directory; `stack` holds the running <Directory as MenuItem>::exec      *)
(* calls, innermost last, each with the place it has reached in its loop.  *)
(*                                                                         *)
(* `toggle` is a Toggle, `paragraph` the Paragraph of                      *)
(* examples/paragraph.rs, `capture` the two threads and two channels of    *)
(* _redir_stdout / _unredir_stdout.                                        *)
(*                                                                         *)
(* Specifications: Spec (the TrackedTerm operations), TrackedSpec (the     *)
(* same without force_clear_line), FailSpec (with failing primitives and   *)
(* read_key), DirSpec (building and running Directories), ToggleSpec,      *)
(* ParaSpec and CapSpec.                                                   *)
(***************************************************************************)
EXTENDS Integers, Sequences, FiniteSets, TLC

\* usize is 64 bits wide; TLC's integers are 32 bits wide, so the width is
\* scaled down.  Every arithmetic expression of the source keeps its width
\* through Arith and WrapUsize.
UsizeBits == 16
UsizeModulus == 2 ^ UsizeBits

\* largest n handed to clear_last_lines / move_cursor_up / move_cursor_down
MaxArg == 2
\* caps on the two counters and on the cursor row (the screen is tall enough
\* that the page never scrolls)
MaxLines == 3
MaxDisp == 3
\* rows of log above the first page: the cursor row at TrackedTerm::stdout()
LogRows == 1
MaxRow == LogRows + MaxLines + MaxArg
\* longest text handed to write_line
MaxStrLen == 2
VARIABLES
    term,             \* the TrackedTerm
    overflow_checks,  \* build profile: TRUE = arithmetic overflow panics
                      \* (debug), FALSE = it wraps (release)
    last,             \* the operation that ran last: its arguments, the
                      \* TrackedTerm it started from (pre) and, when the
                      \* operation before it was a move_cursor_up, that
                      \* call's argument and starting counters (prev)
    dirs,             \* the Directory values
    stack,            \* the exec calls in progress
    built,            \* the builder calls made so far
    widget,           \* what the widget now waiting for the user was given
    dlast,            \* the last step of a Directory's exec loop
    toggle,           \* a Toggle
    paragraph,        \* a Paragraph (examples/paragraph.rs)
    capture,          \* the stdout capture of _redir_stdout
    expansion         \* the statements a diralogue! invocation expands to,
                      \* as far as they have run

dvars == <<dirs, stack, built, widget, dlast>>
xvars == <<toggle, paragraph, capture, expansion>>
vars == <<term, overflow_checks, last, dvars, xvars>>

NL == "\n"
Chars == {"a", NL}

\* the texts write_line is called with: strings over Chars, as sequences
Strings == UNION {[1..k -> Chars] : k \in 0..MaxStrLen}

Max(a, b) == IF a >= b THEN a ELSE b
Min(a, b) == IF a <= b THEN a ELSE b

(***************************************************************************)
(* usize arithmetic                                                        *)
(***************************************************************************)
WrapUsize(x) == x % UsizeModulus
AddOverflows(a, b) == a + b >= UsizeModulus
SubOverflows(a, b) == b > a
\* a.checked_sub(b): <<TRUE, a - b>> for Some(a - b), <<FALSE, 0>> for None
checked_sub(a, b) == IF b > a THEN <<FALSE, 0>> ELSE <<TRUE, a - b>>

Panic(t, why) == [t EXCEPT !.panic = why]
Running(t) == t.panic = ""

\* An arithmetic operation that overflows when `overflows` holds: with
\* overflow checks it panics ("attempt to add/subtract with overflow"),
\* without them the result wraps around.
Arith(t, overflows) ==
    IF ~overflows THEN t
    ELSE IF overflow_checks THEN Panic(t, "overflow")
    ELSE [t EXCEPT !.wrapped = TRUE]

(***************************************************************************)
(* str::lines(): split at every "\n"; a trailing "\n" ends the last line   *)
(* and opens no further one.                                               *)
(***************************************************************************)
RECURSIVE SplitTerminator(_, _)
SplitTerminator(s, cur) ==
    IF s = <<>> THEN (IF cur = <<>> THEN <<>> ELSE <<cur>>)
    ELSE IF Head(s) = NL THEN <<cur>> \o SplitTerminator(Tail(s), <<>>)
    ELSE SplitTerminator(Tail(s), Append(cur, Head(s)))

Lines(s) == SplitTerminator(s, <<>>)

(***************************************************************************)
(* console::Term, the primitives behind self.0.  Their results are         *)
(* discarded by `.ok()`.                                                   *)
(***************************************************************************)
Call(p, n, line) == [p |-> p, n |-> n, line |-> line]

\* t.faults holds the results of the coming primitive calls, TRUE for Err;
\* calls beyond its end succeed.  Fails: the call now made returns Err.
Fails(t) == t.faults # <<>> /\ Head(t.faults)

Rest(t) == IF t.faults = <<>> THEN <<>> ELSE Tail(t.faults)

\* a primitive that returns Err: the call was made, the screen is as before
Err(t, call) ==
    [t EXCEPT !.faults = Rest(t), !.failed = @ + 1,
              !.calls = Append(@, call)]

\* Term::write_line: the line goes to the cursor row, the cursor moves to the
\* next row.  Writing on a row above the page overwrites the log.
TermWriteLine(t, line) ==
    IF Fails(t) THEN Err(t, Call("write_line", 0, line))
    ELSE [t EXCEPT !.cursor = @ + 1,
                   !.log_damaged = @ \/ t.cursor < t.page_start,
                   !.written = IF t.only_written THEN @ + 1 ELSE 0,
                   !.faults = Rest(t),
                   !.calls = Append(@, Call("write_line", 0, line))]

\* Term::clear_last_lines(n): erases the n rows above the cursor row and
\* leaves the cursor on the topmost of them; the cursor stops at row 0.
TermClearLastLines(t, n) ==
    LET top == Max(t.cursor - n, 0)
    IN IF Fails(t) THEN Err(t, Call("clear_last_lines", n, <<>>))
       ELSE [t EXCEPT
                !.cursor = top,
                !.log_damaged = @ \/ (top < t.cursor /\ top < t.page_start),
                !.only_written = FALSE,
                !.written = 0,
                !.faults = Rest(t),
                !.calls = Append(@, Call("clear_last_lines", n, <<>>))]

\* Term::move_cursor_up(n): the cursor stops at row 0.
TermMoveCursorUp(t, n) ==
    IF Fails(t) THEN Err(t, Call("move_cursor_up", n, <<>>))
    ELSE [t EXCEPT !.cursor = Max(@ - n, 0),
                   !.only_written = FALSE,
                   !.written = 0,
                   !.faults = Rest(t),
                   !.calls = Append(@, Call("move_cursor_up", n, <<>>))]

\* Term::move_cursor_down(n)
TermMoveCursorDown(t, n) ==
    IF Fails(t) THEN Err(t, Call("move_cursor_down", n, <<>>))
    ELSE [t EXCEPT !.cursor = @ + n,
                   !.only_written = FALSE,
                   !.written = 0,
                   !.faults = Rest(t),
                   !.calls = Append(@, Call("move_cursor_down", n, <<>>))]

\* Term::read_key: the key pressed, or Err
TermReadKey(t) ==
    IF Fails(t) THEN Err(t, Call("read_key", 0, <<>>))
    ELSE [t EXCEPT !.faults = Rest(t),
                   !.calls = Append(@, Call("read_key", 0, <<>>))]

(***************************************************************************)
(* TrackedTerm                                                             *)
(***************************************************************************)
\* TrackedTerm::stdout(): Self(Term::stdout(), 0, 0)
stdout ==
    [lines_written |-> 0, net_up_displacement |-> 0,
     cursor |-> LogRows, page_start |-> LogRows, log_damaged |-> FALSE,
     written |-> 0, only_written |-> TRUE,
     calls |-> <<>>, panic |-> "", wrapped |-> FALSE,
     faults |-> <<>>, failed |-> 0]

\* self.1 += 1
IncLinesWritten(t) ==
    LET t1 == Arith(t, AddOverflows(t.lines_written, 1))
    IN IF ~Running(t1) THEN t1
       ELSE [t1 EXCEPT !.lines_written = WrapUsize(@ + 1)]

\* WriteLines that returns at the first Err, as `?` would
RECURSIVE WriteLines_Propagates(_, _)
WriteLines_Propagates(t, ls) ==
    IF ls = <<>> \/ ~Running(t) THEN t
    ELSE LET t1 == TermWriteLine(t, Head(ls))
         IN IF t1.failed > t.failed THEN t1
            ELSE WriteLines_Propagates(IncLinesWritten(t1), Tail(ls))

\* the loop body of write_line, once per line of s.lines()
RECURSIVE WriteLines(_, _)
WriteLines(t, ls) ==
    IF ls = <<>> \/ ~Running(t) THEN t
    ELSE WriteLines(IncLinesWritten(TermWriteLine(t, Head(ls))), Tail(ls))

write_line(t, s) == WriteLines(t, Lines(s))

\* line_break handing write_line the empty string instead of "\n"
line_break_EmptyStr(t) == write_line(t, <<>>)

line_break(t) == write_line(t, <<NL>>)

\* move_cursor_down that counts the shortfall but forgets `self.2 = 0`
move_cursor_down_KeepsDisp(t, n) ==
    LET d == t.net_up_displacement
        t1 == IF d >= n
              THEN [t EXCEPT !.net_up_displacement = d - n]
              ELSE [t EXCEPT !.lines_written = WrapUsize(@ + (n - d))]
    IN TermMoveCursorDown(t1, n)

move_cursor_down(t, n) ==
    LET d == t.net_up_displacement
        sub == checked_sub(d, n)
        t1 == IF sub[1]
              THEN [t EXCEPT !.net_up_displacement = sub[2]]
              ELSE LET r == checked_sub(n, d)
                   IN IF ~r[1] THEN Panic(t, "This can't happen")
                      ELSE LET ta == Arith(t, AddOverflows(t.lines_written, r[2]))
                           IN IF ~Running(ta) THEN ta
                              ELSE [ta EXCEPT
                                       !.lines_written = WrapUsize(@ + r[2]),
                                       !.net_up_displacement = 0]
    IN IF Running(t1) THEN TermMoveCursorDown(t1, n) ELSE t1

\* move_cursor_up that moves the cursor without `self.2 += n`
move_cursor_up_Untracked(t, n) == TermMoveCursorUp(t, n)

move_cursor_up(t, n) ==
    LET t1 == Arith(t, AddOverflows(t.net_up_displacement, n))
    IN IF ~Running(t1) THEN t1
       ELSE TermMoveCursorUp(
                [t1 EXCEPT !.net_up_displacement = WrapUsize(@ + n)], n)

clear_last_lines(t, n) ==
    LET t1 == Arith(t, SubOverflows(t.lines_written, t.net_up_displacement))
        rest == WrapUsize(t.lines_written - t.net_up_displacement)
        k == IF n > rest THEN rest ELSE n
    IN IF ~Running(t1) THEN t1
       ELSE LET t2 == Arith(TermClearLastLines(t1, k),
                            AddOverflows(t.net_up_displacement, k))
            IN IF ~Running(t2) THEN t2
               ELSE [t2 EXCEPT !.net_up_displacement = WrapUsize(@ + k)]

force_clear_line(t) == TermClearLastLines(t, 1)

\* read_key: self.0.read_key().unwrap()
read_key(t) ==
    LET t1 == TermReadKey(t)
    IN IF t1.failed > t.failed
       THEN Panic(t1, "unwrap on Err")
       ELSE t1

\* reset that erases one row more than the page and the widget line
reset_TwoExtra(t) ==
    LET t1 == IF t.net_up_displacement > 0
              THEN move_cursor_down(t, t.net_up_displacement)
              ELSE t
        t3 == TermClearLastLines(t1, WrapUsize(t1.lines_written + 2))
    IN [t3 EXCEPT !.lines_written = 0, !.page_start = t3.cursor,
                  !.written = 0, !.only_written = TRUE]

\* reset without the move back down: self.2 is left as it was
reset_NoMoveDown(t) ==
    LET t3 == TermClearLastLines(t, WrapUsize(t.lines_written + 1))
    IN [t3 EXCEPT !.lines_written = 0, !.page_start = t3.cursor,
                  !.written = 0, !.only_written = TRUE]

reset(t) ==
    LET t1 == IF t.net_up_displacement > 0
              THEN move_cursor_down(t, t.net_up_displacement)
              ELSE t
        t2 == IF Running(t1)
              THEN Arith(t1, AddOverflows(t1.lines_written, 1))
              ELSE t1
    IN IF ~Running(t2) THEN t2
       ELSE LET t3 == TermClearLastLines(t2, WrapUsize(t2.lines_written + 1))
            IN [t3 EXCEPT !.lines_written = 0,
                          !.page_start = t3.cursor,
                          !.written = 0,
                          !.only_written = TRUE]

(***************************************************************************)
(* MenuItem and Directory                                                  *)
(***************************************************************************)
\* most items pushed into one Directory
MaxItems == 2
\* most builder calls (new, prompt, item, default, confirmation) of a program
MaxBuild == 4

\* the Directory values of a run: one the program keeps, and one it may put
\* into the other as an item
DirIds == {"root", "child"}

\* a Box<dyn MenuItem>: its type and, for a Directory, which one it is
TextItem == [kind |-> "Text", dir |-> ""]
FunctionItem == [kind |-> "Function", dir |-> ""]
DirectoryItem(d) == [kind |-> "Directory", dir |-> d]
\* an item of a type the program itself implements MenuItem for (as
\* examples/paragraph.rs does): its exec may call any TrackedTerm operation
CustomItem == [kind |-> "Custom", dir |-> ""]
NoItem == [kind |-> "", dir |-> ""]

\* MenuItem::is_enabled: false for Text, true for Directory and Function
is_enabled(it) == it.kind # "Text"

None == <<>>
Some(x) == <<x>>

\* Directory::new(title).  confirmed and how are history, not fields of the
\* struct: the index the user confirmed last in this Directory, or the
\* default the program configured if there was none yet ("new", "default"
\* or "select" says which).  Only the actions write them.
new(title) ==
    [made |-> TRUE, moved |-> FALSE, title |-> title, prompt |-> title,
     items |-> <<>>, selected |-> 0, exit_confirmation |-> None,
     confirmed |-> 0, how |-> "new"]

\* a Directory not constructed yet
NoDirectory ==
    [made |-> FALSE, moved |-> FALSE, title |-> "", prompt |-> "",
     items |-> <<>>, selected |-> 0, exit_confirmation |-> None,
     confirmed |-> 0, how |-> ""]

\* Directory::prompt
prompt(dir, text) == [dir EXCEPT !.prompt = text]

\* Directory::item
item(dir, it) == [dir EXCEPT !.items = Append(@, it)]

\* Directory::default
default(dir, def) == [dir EXCEPT !.selected = def]

\* Directory::confirmation
confirmation(dir, text) == [dir EXCEPT !.exit_confirmation = Some(text)]

NoWidget == [kind |-> "", dir |-> "", items |-> 0, default |-> 0]
\* the last step of the loop: what it was, in which Directory, the index and
\* item it dispatched, and the rows the Select left behind
NoStep == [step |-> "", dir |-> "", v |-> 0, item |-> NoItem, left |-> 0]

(***************************************************************************)
(* Toggle                                                                  *)
(***************************************************************************)
\* most exec calls on a Toggle between two builder calls
MaxExecs == 2

\* format!("{}: {}", title, text)
Format(title, text) == title \o ": " \o text

\* Toggle::update_content
update_content(tg) ==
    LET text == IF tg.value THEN tg.true_text ELSE tg.false_text
    IN [tg EXCEPT !.content = Format(tg.title, text)]

\* Toggle::new(text).  shown is history: the names the Toggle has had since
\* its last builder call, one per exec after the first.
Toggle_new(text) ==
    update_content([made |-> TRUE, title |-> text, content |-> text,
                    value |-> FALSE, true_text |-> "true",
                    false_text |-> "false", shown |-> <<>>])

\* no Toggle constructed yet
NoToggle ==
    [made |-> FALSE, title |-> "", content |-> "", value |-> FALSE,
     true_text |-> "", false_text |-> "", shown |-> <<>>]

\* Toggle::value
Toggle_value(tg, value) == update_content([tg EXCEPT !.value = value])

\* Toggle::true_text
Toggle_true_text(tg, text) == update_content([tg EXCEPT !.true_text = text])

\* Toggle::false_text
Toggle_false_text(tg, text) == update_content([tg EXCEPT !.false_text = text])

\* <Toggle as MenuItem>::name
Toggle_name(tg) == tg.content

\* Toggle exec that flips the value and keeps the old name
Toggle_exec_Stale(tg, t) == <<[tg EXCEPT !.value = ~tg.value], t>>

\* <Toggle as MenuItem>::exec(&mut self, _: &mut TrackedTerm): the Toggle and
\* the TrackedTerm after the call
Toggle_exec(tg, t) == <<update_content([tg EXCEPT !.value = ~tg.value]), t>>

(***************************************************************************)
(* Paragraph (examples/paragraph.rs)                                       *)
(***************************************************************************)
\* most bodies pushed into a Paragraph
MaxParagraphs == 2

\* "  Press 's' to save to a file, or 'q' to go back": a text of one line,
\* kept as one element
Footer == <<"  Press 's' to save to a file, or 'q' to go back">>

\* Paragraph::new(title)
Paragraph_new(title) == [made |-> TRUE, title |-> title, paragraphs |-> <<>>]

\* no Paragraph constructed yet
NoParagraph == [made |-> FALSE, title |-> <<>>, paragraphs |-> <<>>]

\* Paragraph::paragraph(text)
Paragraph_paragraph(pg, text) == [pg EXCEPT !.paragraphs = Append(@, text)]

\* for p in self.paragraphs.iter() { term.write_line(&p); term.write_line(""); }
RECURSIVE WriteBodies(_, _)
WriteBodies(t, ps) ==
    IF ps = <<>> THEN t
    ELSE WriteBodies(write_line(write_line(t, Head(ps)), <<>>), Tail(ps))

\* <Paragraph as MenuItem>::exec: the Paragraph and the TrackedTerm after it
Paragraph_exec(pg, t) ==
    LET t1 == write_line(t, pg.title)
        t2 == write_line(t1, <<>>)
        t3 == WriteBodies(t2, pg.paragraphs)
        t4 == write_line(t3, <<>>)
    IN <<pg, write_line(t4, Footer)>>

(***************************************************************************)
(* The stdout capture: _redir_stdout spawns a thread that reads what the   *)
(* process prints and sends it to the main thread.  A text is modelled by  *)
(* the number of lines in it.                                              *)
(*   stop   messages in the channel tk -> rk (main to thread)              *)
(*   data   messages in the channel tx -> rx (thread to main), oldest      *)
(*          first                                                          *)
(*   pipe   lines printed and not yet read by the thread                   *)
(*   ppc    where the thread is: "test", "read", "send" or "done"          *)
(*   buf    the thread's buf                                               *)
(*   mpc    where the main thread is: "running" (between _redir_stdout and *)
(*          _unredir_stdout), "println", "recv" or "done"                  *)
(*   got    the String _unredir_stdout returns                             *)
(***************************************************************************)
\* lines the program prints while its output is captured
MaxPrints == 2
\* the model stops the thread when this many messages wait in tx -> rx; the
\* channel itself (sync::mpsc::channel()) has no capacity
MaxInFlight == 3

\* before _redir_stdout
NoCapture ==
    [made |-> FALSE, stop |-> 0, data |-> <<>>, pipe |-> 0, ppc |-> "",
     buf |-> 0, mpc |-> "", got |-> 0]

\* _redir_stdout: both channels are created empty and the thread is spawned
redir_stdout ==
    [made |-> TRUE, stop |-> 0, data |-> <<>>, pipe |-> 0, ppc |-> "test",
     buf |-> 0, mpc |-> "running", got |-> 0]

\* tx.send(buf).ok(): the message is queued at once, whatever is queued
\* already; once rx is dropped the send fails and the failure is ignored
Send(c) ==
    IF c.mpc = "done" THEN c ELSE [c EXCEPT !.data = Append(@, c.buf)]

(***************************************************************************)
(* diralogue!: the statements its rules expand to.                         *)
(*   outer    the Vec `dirs` ($outer), the Directory values built so far   *)
(*            and not yet boxed, the root first                            *)
(*   frames   the rule invocations in progress, one per item list being    *)
(*            read: the $id the list is read with and the options          *)
(*            ($method = $args) of the Directory the list belongs to       *)
(*   declared what was written, as Directory values: for every list being  *)
(*            read, the Directory its declaration describes so far         *)
(*   count    the children declared so far                                 *)
(*   pc       "" before the invocation, "items" while a list is read,      *)
(*            "done" when the root's list has ended (before dirs[0].run()) *)
(***************************************************************************)
\* nesting depth of the declared directories below the root
MaxDepth == 2
\* children declared in one invocation, over all directories
MaxDeclared == 3

\* an option `$method = $args` of the declaration
Method(m, n, text) == [method |-> m, n |-> n, text |-> text]

\* dir.$method($args) / this.$method($args)
call_method(dir, m) ==
    IF m.method = "default" THEN default(dir, m.n)
    ELSE confirmation(dir, m.text)

RECURSIVE call_methods(_, _)
call_methods(dir, ms) ==
    IF ms = <<>> THEN dir
    ELSE call_methods(call_method(dir, Head(ms)), Tail(ms))

NoExpansion ==
    [pc |-> "", outer |-> <<>>, frames |-> <<>>, declared |-> <<>>,
     count |-> 0]

\* first rule, ($title $(,$prompt)? => $(($method = $args;)+)? [ $inner ]),
\* up to its inner invocation diralogue!(item dirs 0, $inner)
macro_root(e, title, p, ms) ==
    LET dir0 == new(title)
        dir1 == IF p # None THEN prompt(dir0, p[1]) ELSE dir0
        dir == call_methods(dir1, ms)
    IN [e EXCEPT !.pc = "items",
                 !.outer = <<dir>>,
                 !.frames = <<[id |-> 0, methods |-> <<>>]>>]

\* second rule, (item $outer $id, $title $(,$prompt)? => $(..)? [ $inner ];
\* $rest), up to its inner invocation diralogue!(item $outer $id+1, $inner).
\* The rule matches $prompt and its expansion does not mention it.
macro_directory(e, title, p, ms) ==
    [e EXCEPT !.outer = Append(@, new(title)),
              !.frames = Append(@, [id |-> e.frames[Len(e.frames)].id + 1,
                                    methods |-> ms])]

\* the rest of the second rule, after the inner invocation has ended:
\* let mut this = $outer.pop().unwrap(); this.$method($args);
\* $outer[$id].item(Box::new(this))
macro_directory_end(e) ==
    LET n == Len(e.outer)
        f == e.frames[Len(e.frames)]
        id == e.frames[Len(e.frames) - 1].id
        this == call_methods(e.outer[n], f.methods)
        rest == SubSeq(e.outer, 1, n - 1)
    IN [e EXCEPT !.outer = [rest EXCEPT ![id + 1] =
                                item(@, DirectoryItem(this))],
                 !.frames = SubSeq(@, 1, Len(@) - 1)]

\* third and fourth rule, (item $outer $id, $inner; $rest) and
\* (item $outer $id, $title => $inner; $rest):
\* let mut parent = $outer.pop().unwrap(); parent.item(Box::new(..));
\* $outer.push(parent)
macro_item(e, it) ==
    LET n == Len(e.outer)
        parent == e.outer[n]
        rest == SubSeq(e.outer, 1, n - 1)
    IN [e EXCEPT !.outer = Append(rest, item(parent, it))]

(***************************************************************************)
(* The public operations, called in any order with any arguments           *)
(***************************************************************************)
Begin(t) == [t EXCEPT !.calls = <<>>, !.failed = 0]

\* what `last` keeps of the TrackedTerm an operation started from
Pre(t) ==
    [lines_written |-> t.lines_written,
     net_up_displacement |-> t.net_up_displacement,
     cursor |-> t.cursor, log_damaged |-> t.log_damaged,
     only_written |-> t.only_written, written |-> t.written]

Bounded(t) ==
    /\ t.lines_written <= MaxLines
    /\ t.net_up_displacement <= MaxDisp
    /\ t.cursor <= MaxRow

NoPrev == [op |-> "", n |-> 0, w |-> 0, d |-> 0]

Done(op, n, text) ==
    last' = [op |-> op, n |-> n, text |-> text, pre |-> Pre(term),
             prev |-> IF last.op = "move_cursor_up"
                      THEN [op |-> last.op, n |-> last.n,
                            w |-> last.pre.lines_written,
                            d |-> last.pre.net_up_displacement]
                      ELSE NoPrev]

Init ==
    /\ term = stdout
    /\ overflow_checks \in BOOLEAN
    /\ last = [op |-> "stdout", n |-> 0, text |-> <<>>, pre |-> Pre(stdout),
               prev |-> NoPrev]
    /\ dirs = [d \in DirIds |-> IF d = "root" THEN new(d) ELSE NoDirectory]
    /\ stack = <<>>
    /\ built = 0
    /\ widget = NoWidget
    /\ dlast = NoStep
    /\ toggle = NoToggle
    /\ paragraph = NoParagraph
    /\ capture = NoCapture
    /\ expansion = NoExpansion

WriteLine ==
    \E s \in Strings :
        /\ Running(term)
        /\ term' = write_line(Begin(term), s)
        /\ Bounded(term')
        /\ Done("write_line", 0, s)
        /\ UNCHANGED <<overflow_checks, dvars, xvars>>

LineBreak ==
    /\ Running(term)
    /\ term' = line_break(Begin(term))
    /\ Bounded(term')
    /\ Done("line_break", 0, <<>>)
    /\ UNCHANGED <<overflow_checks, dvars, xvars>>

Reset ==
    /\ Running(term)
    /\ term' = reset(Begin(term))
    /\ Bounded(term')
    /\ Done("reset", 0, <<>>)
    /\ UNCHANGED <<overflow_checks, dvars, xvars>>

ForceClearLine ==
    /\ Running(term)
    /\ term' = force_clear_line(Begin(term))
    /\ Done("force_clear_line", 0, <<>>)
    /\ UNCHANGED <<overflow_checks, dvars, xvars>>

ClearLastLines ==
    \E n \in 0..MaxArg :
        /\ Running(term)
        /\ term' = clear_last_lines(Begin(term), n)
        /\ Bounded(term')
        /\ Done("clear_last_lines", n, <<>>)
        /\ UNCHANGED <<overflow_checks, dvars, xvars>>

MoveCursorUp ==
    \E n \in 0..MaxArg :
        /\ Running(term)
        /\ term' = move_cursor_up(Begin(term), n)
        /\ Bounded(term')
        /\ Done("move_cursor_up", n, <<>>)
        /\ UNCHANGED <<overflow_checks, dvars, xvars>>

MoveCursorDown ==
    \E n \in 0..MaxArg :
        /\ Running(term)
        /\ term' = move_cursor_down(Begin(term), n)
        /\ Bounded(term')
        /\ Done("move_cursor_down", n, <<>>)
        /\ UNCHANGED <<overflow_checks, dvars, xvars>>

Next ==
    \/ WriteLine
    \/ LineBreak
    \/ Reset
    \/ ForceClearLine
    \/ ClearLastLines
    \/ MoveCursorUp
    \/ MoveCursorDown

Spec == Init /\ [][Next]_vars

\* the operations that keep the counters, without force_clear_line
TrackedNext ==
    \/ WriteLine
    \/ LineBreak
    \/ Reset
    \/ ClearLastLines
    \/ MoveCursorUp
    \/ MoveCursorDown

TrackedSpec == Init /\ [][TrackedNext]_vars

(***************************************************************************)
(* The same operations and read_key on a terminal whose primitives may     *)
(* return Err                                                              *)
(***************************************************************************)
\* most primitive calls of one operation whose results are chosen
MaxFaults == 2

\* the results of the first calls of an operation, up to the last Err
FaultPatterns ==
    {f \in UNION {[1..k -> BOOLEAN] : k \in 0..MaxFaults} :
        f = <<>> \/ f[Len(f)]}

\* the TrackedTerm at the start of an operation whose primitive calls will
\* return f
Faulted(t, f) == [Begin(t) EXCEPT !.faults = f]

\* the operation is over: results it did not use belong to no call.  What a
\* failed primitive leaves on the screen is not known, so the screen of a
\* failing terminal is not followed: only the counters, the calls and the
\* panic are.
Settled(t) ==
    [t EXCEPT !.faults = <<>>, !.cursor = LogRows, !.page_start = LogRows,
              !.log_damaged = FALSE, !.written = 0, !.only_written = TRUE]

Attempt(t, op, n, text) ==
    /\ Running(term)
    /\ term' = Settled(t)
    /\ Bounded(term')
    /\ Done(op, n, text)
    /\ UNCHANGED <<overflow_checks, dvars, xvars>>

FailWriteLine ==
    \E s \in Strings : \E f \in FaultPatterns :
        Attempt(write_line(Faulted(term, f), s), "write_line", 0, s)

FailLineBreak ==
    \E f \in FaultPatterns :
        Attempt(line_break(Faulted(term, f)), "line_break", 0, <<>>)

FailReset ==
    \E f \in FaultPatterns :
        Attempt(reset(Faulted(term, f)), "reset", 0, <<>>)

FailForceClearLine ==
    \E f \in FaultPatterns :
        Attempt(force_clear_line(Faulted(term, f)), "force_clear_line", 0,
                <<>>)

FailClearLastLines ==
    \E n \in 0..MaxArg : \E f \in FaultPatterns :
        Attempt(clear_last_lines(Faulted(term, f), n), "clear_last_lines", n,
                <<>>)

FailMoveCursorUp ==
    \E n \in 0..MaxArg : \E f \in FaultPatterns :
        Attempt(move_cursor_up(Faulted(term, f), n), "move_cursor_up", n,
                <<>>)

FailMoveCursorDown ==
    \E n \in 0..MaxArg : \E f \in FaultPatterns :
        Attempt(move_cursor_down(Faulted(term, f), n), "move_cursor_down", n,
                <<>>)

ReadKey ==
    \E f \in FaultPatterns :
        Attempt(read_key(Faulted(term, f)), "read_key", 0, <<>>)

FailNext ==
    \/ FailWriteLine
    \/ FailLineBreak
    \/ FailReset
    \/ FailForceClearLine
    \/ FailClearLastLines
    \/ FailMoveCursorUp
    \/ FailMoveCursorDown
    \/ ReadKey

FailSpec == Init /\ [][FailNext]_vars

(***************************************************************************)
(* The stdout capture: the thread of _redir_stdout and the main thread,    *)
(* one statement at a time, in any interleaving                            *)
(***************************************************************************)
CapSame ==
    UNCHANGED <<term, overflow_checks, last, dvars, toggle, paragraph,
                expansion>>

Redir ==
    /\ ~capture.made
    /\ capture' = redir_stdout
    /\ CapSame

\* the program under test prints a line
MainPrint ==
    /\ capture.mpc = "running"
    /\ capture.pipe < MaxPrints
    /\ capture' = [capture EXCEPT !.pipe = @ + 1]
    /\ CapSame

\* _unredir_stdout: tx.send(true).unwrap()
UnredirSend ==
    /\ capture.mpc = "running"
    /\ capture' = [capture EXCEPT !.stop = @ + 1, !.mpc = "println"]
    /\ CapSame

\* _unredir_stdout: println!("")
UnredirPrintln ==
    /\ capture.mpc = "println"
    /\ capture' = [capture EXCEPT !.pipe = @ + 1, !.mpc = "recv"]
    /\ CapSame

\* _unredir_stdout: rx.recv() returns the oldest message, or Err when the
\* thread is gone and nothing is queued; rx is dropped on return
UnredirRecv ==
    /\ capture.mpc = "recv"
    /\ \/ /\ capture.data # <<>>
          /\ capture' = [capture EXCEPT !.got = Head(capture.data),
                                        !.data = <<>>, !.mpc = "done"]
       \/ /\ capture.data = <<>>
          /\ capture.ppc = "done"
          /\ capture' = [capture EXCEPT !.mpc = "done"]
    /\ CapSame

\* while !rk.try_recv().is_ok()
ThreadTest ==
    /\ capture.ppc = "test"
    /\ capture' = IF capture.stop > 0
                  THEN [capture EXCEPT !.stop = @ - 1, !.ppc = "done"]
                  ELSE [capture EXCEPT !.ppc = "read"]
    /\ CapSame

\* let mut buf = String::new(); shh.read_to_string(&mut buf).ok(): buf is
\* what was printed since the last read, possibly nothing
ThreadRead ==
    /\ capture.ppc = "read"
    /\ capture' = [capture EXCEPT !.buf = capture.pipe, !.pipe = 0,
                                  !.ppc = "send"]
    /\ CapSame

\* tx.send(buf).ok()
ThreadSend ==
    /\ capture.ppc = "send"
    /\ Len(capture.data) < MaxInFlight
    /\ capture' = [Send(capture) EXCEPT !.buf = 0, !.ppc = "test"]
    /\ CapSame

CapNext ==
    \/ Redir
    \/ MainPrint
    \/ UnredirSend
    \/ UnredirPrintln
    \/ UnredirRecv
    \/ ThreadTest
    \/ ThreadRead
    \/ ThreadSend

CapSpec == Init /\ [][CapNext]_vars

(***************************************************************************)
(* diralogue!: one invocation, reading any declaration rule by rule        *)
(***************************************************************************)
\* the options a declaration may carry: default = 1 and a confirmation
\* text, as src/main.rs writes them
Methods ==
    {Method("default", 1, ""),
     Method("confirmation", 0, "Are you sure you want to quit?")}

\* $(($method = $args;)+)?: none, one or both, in either order
MethodLists ==
    {<<>>} \cup {<<m>> : m \in Methods}
    \cup {l \in {<<m1, m2>> : m1 \in Methods, m2 \in Methods} :
                l[1] # l[2]}

\* $(,$prompt)?
Prompts == {None, Some("Prompt")}

\* the Directory a declaration describes: the prompt is the custom prompt
\* when one is written, else the title; selected is the default given;
\* exit_confirmation is the confirmation text given
Declared(title, p, ms) ==
    LET given(m) == {i \in 1..Len(ms) : ms[i].method = m}
    IN [new(title) EXCEPT
           !.prompt = IF p = None THEN title ELSE p[1],
           !.selected = IF given("default") = {} THEN 0
                        ELSE ms[CHOOSE i \in given("default") : TRUE].n,
           !.exit_confirmation =
               IF given("confirmation") = {} THEN None
               ELSE Some(ms[CHOOSE i \in given("confirmation") : TRUE].text)]

\* a child is declared in the list being read
Child(e, it) ==
    [e EXCEPT !.declared[Len(e.declared)].items = Append(@, it),
              !.count = @ + 1]

ExpSame == UNCHANGED <<term, overflow_checks, last, dvars, toggle, paragraph,
                       capture>>

\* the list being read may take one more child
Reading ==
    /\ expansion.pc = "items"
    /\ expansion.count < MaxDeclared
    /\ Len(expansion.declared[Len(expansion.declared)].items) < MaxItems

MacroRoot ==
    \E p \in Prompts : \E ms \in MethodLists :
        /\ expansion.pc = ""
        /\ expansion' = [macro_root(expansion, "Title", p, ms) EXCEPT
                             !.declared = <<Declared("Title", p, ms)>>]
        /\ ExpSame

\* a nested directory is declared.  Its options are at most one: the rule
\* expands two to `this.a(..)this.b(..);`, which does not compile.
MacroDirectory ==
    \E p \in Prompts : \E ms \in {l \in MethodLists : Len(l) <= 1} :
        /\ Reading
        /\ Len(expansion.frames) <= MaxDepth
        /\ expansion' =
               [macro_directory(expansion, "Sub Menu", p, ms) EXCEPT
                   !.declared = Append(@, Declared("Sub Menu", p, ms))]
        /\ ExpSame

\* an item is declared by an expression (a Text, a Toggle, ..)
MacroItem ==
    /\ Reading
    /\ expansion' = Child(macro_item(expansion, TextItem), TextItem)
    /\ ExpSame

\* an item is declared as "title" => expression: a Function
MacroFunction ==
    /\ Reading
    /\ expansion' = Child(macro_item(expansion, FunctionItem), FunctionItem)
    /\ ExpSame

\* the list of a nested directory ends ([ $inner ] holds at least one item)
MacroDirectoryEnd ==
    LET n == Len(expansion.declared)
        d == expansion.declared[n]
        e == macro_directory_end(expansion)
    IN /\ expansion.pc = "items"
       /\ Len(expansion.frames) > 1
       /\ d.items # <<>>
       /\ expansion' =
              [e EXCEPT !.declared =
                            [SubSeq(@, 1, n - 1) EXCEPT ![n - 1].items =
                                Append(@, DirectoryItem(d))],
                        !.count = @ + 1]
       /\ ExpSame

\* the root's list ends: fifth rule; dirs[0].run() is next
MacroEnd ==
    /\ expansion.pc = "items"
    /\ Len(expansion.frames) = 1
    /\ expansion.declared[1].items # <<>>
    /\ expansion' = [expansion EXCEPT !.pc = "done"]
    /\ ExpSame

MacroNext ==
    \/ MacroRoot
    \/ MacroDirectory
    \/ MacroItem
    \/ MacroFunction
    \/ MacroDirectoryEnd
    \/ MacroEnd

MacroSpec == Init /\ [][MacroNext]_vars

(***************************************************************************)
(* A Toggle: built, reconfigured and executed in any order, while the      *)
(* program writes to the TrackedTerm it hands to exec and moves its cursor *)
(***************************************************************************)
Titles == {"Sound", "Music"}
Texts == {"true", "false", "yes", "no"}

Shown(tg) == [tg EXCEPT !.shown = <<Toggle_name(tg)>>]

ToggleNew ==
    \E text \in Titles :
        /\ ~toggle.made
        /\ toggle' = Shown(Toggle_new(text))
        /\ UNCHANGED <<term, overflow_checks, last, dvars, paragraph, capture,
                     expansion>>

ToggleValue ==
    \E value \in BOOLEAN :
        /\ toggle.made
        /\ toggle' = Shown(Toggle_value(toggle, value))
        /\ UNCHANGED <<term, overflow_checks, last, dvars, paragraph, capture,
                     expansion>>

ToggleTrueText ==
    \E text \in Texts :
        /\ toggle.made
        /\ toggle' = Shown(Toggle_true_text(toggle, text))
        /\ UNCHANGED <<term, overflow_checks, last, dvars, paragraph, capture,
                     expansion>>

ToggleFalseText ==
    \E text \in Texts :
        /\ toggle.made
        /\ toggle' = Shown(Toggle_false_text(toggle, text))
        /\ UNCHANGED <<term, overflow_checks, last, dvars, paragraph, capture,
                     expansion>>

ToggleExec ==
    LET r == Toggle_exec(toggle, term)
    IN /\ toggle.made
       /\ Running(term)
       /\ Len(toggle.shown) <= MaxExecs
       /\ toggle' = [r[1] EXCEPT !.shown = Append(@, Toggle_name(r[1]))]
       /\ term' = r[2]
       /\ UNCHANGED <<overflow_checks, last, dvars, paragraph, capture,
                     expansion>>

ToggleNext ==
    \/ ToggleNew
    \/ ToggleValue
    \/ ToggleTrueText
    \/ ToggleFalseText
    \/ ToggleExec
    \/ LineBreak
    \/ MoveCursorUp

ToggleSpec == Init /\ [][ToggleNext]_vars

(***************************************************************************)
(* A Paragraph: built, then executed on a TrackedTerm that the program     *)
(* also writes to and resets                                               *)
(***************************************************************************)
\* titles and bodies: non-empty texts of one line
OneLiners == {s \in Strings : s # <<>> /\ \A i \in 1..Len(s) : s[i] # NL}

ParaNew ==
    \E title \in OneLiners :
        /\ ~paragraph.made
        /\ paragraph' = Paragraph_new(title)
        /\ UNCHANGED <<term, overflow_checks, last, dvars, toggle, capture,
                     expansion>>

ParaAdd ==
    \E text \in OneLiners :
        /\ paragraph.made
        /\ Len(paragraph.paragraphs) < MaxParagraphs
        /\ paragraph' = Paragraph_paragraph(paragraph, text)
        /\ UNCHANGED <<term, overflow_checks, last, dvars, toggle, capture,
                     expansion>>

ParaExec ==
    LET r == Paragraph_exec(paragraph, Begin(term))
    IN /\ paragraph.made
       /\ Running(term)
       /\ paragraph' = r[1]
       /\ term' = r[2]
       /\ Bounded(term')
       /\ Done("paragraph_exec", 0, <<>>)
       /\ UNCHANGED <<overflow_checks, dvars, toggle, capture,
                     expansion>>

ParaNext ==
    \/ ParaNew
    \/ ParaAdd
    \/ ParaExec
    \/ LineBreak
    \/ Reset

ParaSpec == Init /\ [][ParaNext]_vars

(***************************************************************************)
(* The Directory builder and the selection loop                            *)
(***************************************************************************)
\* the line a finished widget leaves on the screen: k rows written at the
\* cursor without the TrackedTerm counting them
Untracked(t, k) ==
    [t EXCEPT !.cursor = @ + k,
              !.log_damaged = @ \/ (k > 0 /\ t.cursor < t.page_start)]

\* println! after a reset: one more row of log, written at the cursor.  The
\* page now starts below it; the screen keeps LogRows rows of log above the
\* page, older rows scroll off its top.
Println(t) ==
    LET row == t.cursor + 1
        off == Max(row - LogRows, 0)
    IN [t EXCEPT !.cursor = row - off, !.page_start = row - off,
                 !.calls = Append(@, Call("println", 0, <<>>))]

\* a Directory the program can still name: constructed and not moved into
\* another Directory's items
Owned(d) == dirs[d].made /\ ~dirs[d].moved

Idle == stack = <<>>

\* the program builds its menu tree before it runs it
Building == Idle /\ dlast = NoStep /\ built < MaxBuild

Built == built' = built + 1 /\ UNCHANGED dlast

Top == stack[Len(stack)]

SetTop(pc) == [stack EXCEPT ![Len(stack)].pc = pc]

\* the exec on top of the stack returns: its caller's loop goes on
Return ==
    LET rest == SubSeq(stack, 1, Len(stack) - 1)
    IN IF rest = <<>> THEN rest
       ELSE [rest EXCEPT ![Len(rest)].pc = "loop"]

TermSame == UNCHANGED <<term, overflow_checks, last, xvars>>

\* let child = Directory::new(..)
NewDir ==
    /\ Building
    /\ ~dirs["child"].made
    /\ dirs' = [dirs EXCEPT !["child"] = new("child")]
    /\ UNCHANGED <<stack, widget>>
    /\ Built
    /\ TermSame

SetPrompt ==
    /\ Building
    /\ dirs' = [dirs EXCEPT !["root"] = prompt(@, "Prompt")]
    /\ UNCHANGED <<stack, widget>>
    /\ Built
    /\ TermSame

\* (Custom items go into the nested Directory only, which keeps the number
\* of menu trees small; its exec is the one whose return has a caller.)
AddItem ==
    \E d \in DirIds :
        \E it \in {TextItem, FunctionItem, CustomItem} :
            /\ Building
            /\ Owned(d)
            /\ it = CustomItem => d = "child"
            /\ Len(dirs[d].items) < MaxItems
            /\ dirs' = [dirs EXCEPT ![d] = item(@, it)]
            /\ UNCHANGED <<stack, widget>>
            /\ Built
            /\ TermSame

\* root.item(Box::new(child)): the child is moved into the root
AddDirectory ==
    /\ Building
    /\ Owned("child")
    /\ Len(dirs["root"].items) < MaxItems
    /\ dirs' = [dirs EXCEPT !["root"] = item(@, DirectoryItem("child")),
                            !["child"].moved = TRUE]
    /\ UNCHANGED <<stack, widget>>
    /\ Built
    /\ TermSame

SetDefault ==
    \E d \in DirIds :
        \E def \in 0..MaxItems :
            /\ Building
            /\ Owned(d)
            /\ dirs' = [dirs EXCEPT ![d] = [default(@, def) EXCEPT
                                                !.confirmed = def,
                                                !.how = "default"]]
            /\ UNCHANGED <<stack, widget>>
            /\ Built
            /\ TermSame

SetConfirmation ==
    \E d \in DirIds :
        /\ Building
        /\ Owned(d)
        /\ dirs' = [dirs EXCEPT ![d] = confirmation(@, "Sure?")]
        /\ UNCHANGED <<stack, widget>>
        /\ Built
        /\ TermSame

\* Directory::run: the log header, then exec on a new TrackedTerm
Run ==
    \E d \in DirIds :
        /\ Idle
        /\ Owned(d)
        /\ Running(term)
        /\ term' = Println([Begin(term) EXCEPT
                                !.lines_written = 0,
                                !.net_up_displacement = 0,
                                !.written = 0, !.only_written = TRUE])
        /\ Bounded(term')
        /\ stack' = <<[dir |-> d, pc |-> "loop"]>>
        /\ dlast' = [NoStep EXCEPT !.step = "run", !.dir = d]
        /\ UNCHANGED <<dirs, built, widget, overflow_checks, last, xvars>>

\* Display, with a Select that always starts on the first item
Display_FirstItem ==
    /\ ~Idle
    /\ Top.pc = "loop"
    /\ Running(term)
    /\ term' = line_break(line_break(Begin(term)))
    /\ Bounded(term')
    /\ widget' = [kind |-> "select", dir |-> Top.dir,
                  items |-> Len(dirs[Top.dir].items),
                  default |-> 0]
    /\ stack' = SetTop("select")
    /\ dlast' = [NoStep EXCEPT
                     !.step = IF dlast.step \in {"run", "dispatch"}
                              THEN "first_display" ELSE "display",
                     !.dir = Top.dir]
    /\ UNCHANGED <<dirs, built, overflow_checks, last, xvars>>

\* exec, from the top of the loop to the Select waiting for the user
Display ==
    /\ ~Idle
    /\ Top.pc = "loop"
    /\ Running(term)
    /\ term' = line_break(line_break(Begin(term)))
    /\ Bounded(term')
    /\ widget' = [kind |-> "select", dir |-> Top.dir,
                  items |-> Len(dirs[Top.dir].items),
                  default |-> dirs[Top.dir].selected]
    /\ stack' = SetTop("select")
    /\ dlast' = [NoStep EXCEPT
                     !.step = IF dlast.step \in {"run", "dispatch"}
                              THEN "first_display" ELSE "display",
                     !.dir = Top.dir]
    /\ UNCHANGED <<dirs, built, overflow_checks, last, xvars>>

\* what the exec of a Custom item may do to the TrackedTerm it is handed
CustomOps == {[op |-> o, n |-> 1] : o \in {"write_line", "move_cursor_up"}}

Custom(t, c) ==
    IF c.op = "write_line" THEN write_line(t, <<"a">>)
    ELSE move_cursor_up(t, c.n)

\* self.items[v].exec(term) for the items that return at once: Text does
\* nothing, Function calls its closure, which prints a line, a Custom item
\* does c.  (The exec of a Directory item is a new frame of the stack.)
ExecLeaf(t, it, c) ==
    CASE it.kind = "Function" -> Println(t)
      [] it.kind = "Custom" -> Custom(t, c)
      [] OTHER -> t

\* the call self.items[v].exec(term) is made
Exec(t, v) == [t EXCEPT !.calls = Append(@, Call("exec", v, <<>>))]

\* Selected, printing the log line before the page is erased
Selected_PrintsFirst ==
    \E v \in 0..(MaxItems - 1) :
        \E left \in 0..1 :
            \E c \in CustomOps :
                LET d == Top.dir
                    it == dirs[d].items[v + 1]
                    t1 == Println(Untracked(Begin(term), left))
                    t2 == reset(t1)
                    t3 == ExecLeaf(Exec(t2, v), it, c)
                IN /\ ~Idle
                   /\ Top.pc = "select"
                   /\ v < widget.items
                   /\ Running(term)
                   /\ term' = t3
                   /\ Bounded(term')
                   /\ dirs' = [dirs EXCEPT ![d].selected = v,
                                           ![d].confirmed = v,
                                           ![d].how = "select"]
                   /\ stack' = IF it.kind = "Directory"
                               THEN Append(SetTop("exec"),
                                           [dir |-> it.dir, pc |-> "loop"])
                               ELSE SetTop("loop")
                   /\ widget' = NoWidget
                   /\ dlast' = [step |-> "dispatch", dir |-> d, v |-> v,
                                item |-> it, left |-> left]
                   /\ UNCHANGED <<built, overflow_checks, last, xvars>>

\* rv = Some(v): the Select leaves `left` rows and returns an index of the
\* list it was given
Selected ==
    \E v \in 0..(MaxItems - 1) :
        \E left \in 0..1 :
            \E c \in CustomOps :
                LET d == Top.dir
                    it == dirs[d].items[v + 1]
                    t1 == reset(Untracked(Begin(term), left))
                    t2 == Println(t1)
                    t3 == ExecLeaf(Exec(t2, v), it, c)
                IN /\ ~Idle
                   /\ Top.pc = "select"
                   /\ v < widget.items
                   /\ Running(term)
                   /\ term' = t3
                   /\ Bounded(term')
                   /\ dirs' = [dirs EXCEPT ![d].selected = v,
                                           ![d].confirmed = v,
                                           ![d].how = "select"]
                   /\ stack' = IF it.kind = "Directory"
                               THEN Append(SetTop("exec"),
                                           [dir |-> it.dir, pc |-> "loop"])
                               ELSE SetTop("loop")
                   /\ widget' = NoWidget
                   /\ dlast' = [step |-> "dispatch", dir |-> d, v |-> v,
                                item |-> it, left |-> left]
                   /\ UNCHANGED <<built, overflow_checks, last, xvars>>

\* Cancelled, leaving the loop without term.reset()
Cancelled_NoReset ==
    \E left \in 0..1 :
        LET d == Top.dir
            ec == dirs[d].exit_confirmation
        IN /\ ~Idle
           /\ Top.pc = "select"
           /\ Running(term)
           /\ term' = Untracked(Begin(term), left)
           /\ Bounded(term')
           /\ stack' = IF ec = None THEN Return ELSE SetTop("confirm")
           /\ widget' = IF ec = None THEN NoWidget
                        ELSE [kind |-> "confirm", dir |-> d, items |-> 0,
                              default |-> 0]
           /\ dlast' = [NoStep EXCEPT !.step = "cancel", !.dir = d,
                                      !.left = left]
           /\ UNCHANGED <<dirs, built, overflow_checks, last, xvars>>

\* rv = None: the user backed out of the Select
Cancelled ==
    \E left \in 0..1 :
        LET d == Top.dir
            ec == dirs[d].exit_confirmation
        IN /\ ~Idle
           /\ Top.pc = "select"
           /\ Running(term)
           /\ term' = reset(Untracked(Begin(term), left))
           /\ Bounded(term')
           /\ stack' = IF ec = None THEN Return ELSE SetTop("confirm")
           /\ widget' = IF ec = None THEN NoWidget
                        ELSE [kind |-> "confirm", dir |-> d, items |-> 0,
                              default |-> 0]
           /\ dlast' = [NoStep EXCEPT !.step = "cancel", !.dir = d,
                                      !.left = left]
           /\ UNCHANGED <<dirs, built, overflow_checks, last, xvars>>

\* Confirmed, leaving the loop whatever the answer is
Confirmed_AlwaysBreaks ==
    \E yes \in BOOLEAN :
        /\ ~Idle
        /\ Top.pc = "confirm"
        /\ Running(term)
        /\ term' = Println(Begin(term))
        /\ Bounded(term')
        /\ stack' = Return
        /\ widget' = NoWidget
        /\ dlast' = [NoStep EXCEPT !.step = IF yes THEN "yes" ELSE "no",
                                   !.dir = Top.dir]
        /\ UNCHANGED <<dirs, built, overflow_checks, last, xvars>>

\* Confirmation::interact() returns: its line stays on the screen
Confirmed ==
    \E yes \in BOOLEAN :
        /\ ~Idle
        /\ Top.pc = "confirm"
        /\ Running(term)
        /\ term' = Println(Begin(term))
        /\ Bounded(term')
        /\ stack' = IF yes THEN Return ELSE SetTop("loop")
        /\ widget' = NoWidget
        /\ dlast' = [NoStep EXCEPT !.step = IF yes THEN "yes" ELSE "no",
                                   !.dir = Top.dir]
        /\ UNCHANGED <<dirs, built, overflow_checks, last, xvars>>

DirNext ==
    \/ NewDir
    \/ SetPrompt
    \/ AddItem
    \/ AddDirectory
    \/ SetDefault
    \/ SetConfirmation
    \/ Run
    \/ Display
    \/ Selected
    \/ Cancelled
    \/ Confirmed

DirSpec == Init /\ [][DirNext]_vars

(***************************************************************************)
(* Properties of TrackedTerm                                               *)
(***************************************************************************)
\* C1: after every public operation, net_up_displacement <= lines_written.
C1_NetUpWithinWritten ==
    Running(term) => term.net_up_displacement <= term.lines_written

TrackedOps ==
    {"write_line", "line_break", "reset", "clear_last_lines",
     "move_cursor_up", "move_cursor_down"}

\* C2: no operation other than force_clear_line erases or overwrites a row
\* above the row where the current page started.
C2_LogUntouched ==
    (last.op \in TrackedOps /\ ~last.pre.log_damaged) => ~term.log_damaged

\* C3: reset, started with counters (w, d), moves the cursor down by d when
\* d > 0, then erases w + 1 lines (w not changed by the move), and leaves
\* both counters at zero; after nothing but write_line/line_break calls that
\* emitted k lines it erases k + 1 lines.
C3_ResetErasesPage ==
    last.op = "reset" =>
        LET w == last.pre.lines_written
            d == last.pre.net_up_displacement
            down == IF d > 0 THEN <<Call("move_cursor_down", d, <<>>)>>
                    ELSE <<>>
        IN /\ Running(term)
           /\ term.calls = down \o <<Call("clear_last_lines", w + 1, <<>>)>>
           /\ term.lines_written = 0
           /\ term.net_up_displacement = 0
           /\ last.pre.only_written =>
                  term.calls =
                      <<Call("clear_last_lines", last.pre.written + 1, <<>>)>>

C3_Witness ==
    /\ last.op = "reset"
    /\ last.pre.net_up_displacement > 0
    /\ last.pre.lines_written > 1

\* C4: clear_last_lines(n), started with counters (w, d), erases exactly
\* min(n, w - d) lines, adds that number to net_up_displacement and leaves
\* lines_written as it was.
C4_ClearClamped ==
    last.op = "clear_last_lines" =>
        LET w == last.pre.lines_written
            d == last.pre.net_up_displacement
            k == Min(last.n, w - d)
        IN /\ Running(term)
           /\ term.calls = <<Call("clear_last_lines", k, <<>>)>>
           /\ term.net_up_displacement = d + k
           /\ term.lines_written = w

\* C5: the counter arithmetic never fails: no operation panics on an
\* overflow and none wraps around.
C5_ArithmeticNeverFails == Running(term) /\ ~term.wrapped

\* C6: move_cursor_up(n) followed immediately by move_cursor_down(n) leaves
\* both counters as they were before the pair.
C6_UpThenDown ==
    (/\ last.op = "move_cursor_down"
     /\ last.prev.op = "move_cursor_up"
     /\ last.prev.n = last.n) =>
        /\ Running(term)
        /\ term.net_up_displacement = last.prev.d
        /\ term.lines_written = last.prev.w

C6_Witness ==
    /\ last.op = "move_cursor_down"
    /\ last.prev.op = "move_cursor_up"
    /\ last.prev.n = last.n
    /\ last.n > 1
    /\ last.prev.d > 0
    /\ last.prev.w > 0

\* C7: move_cursor_down(n), started with counters (w, d), moves the real
\* cursor down by n and yields (w, d - n) when d >= n and (w + (n - d), 0)
\* when d < n; the "This can't happen" panic is never reached.
C7_MoveDown ==
    /\ term.panic # "This can't happen"
    /\ last.op = "move_cursor_down" =>
           LET w == last.pre.lines_written
               d == last.pre.net_up_displacement
               n == last.n
           IN /\ Running(term)
              /\ term.calls = <<Call("move_cursor_down", n, <<>>)>>
              /\ term.cursor = last.pre.cursor + n
              /\ d >= n => /\ term.lines_written = w
                           /\ term.net_up_displacement = d - n
              /\ d < n => /\ term.lines_written = w + (n - d)
                          /\ term.net_up_displacement = 0

C7_Witness ==
    /\ last.op = "move_cursor_down"
    /\ last.pre.net_up_displacement > 0
    /\ last.pre.net_up_displacement < last.n
    /\ last.pre.lines_written > 0

\* the number of lines of a text: one per "\n", and one more for what
\* follows the last "\n"
LineCount(s) ==
    Cardinality({i \in 1..Len(s) : s[i] = NL})
        + (IF Len(s) > 0 /\ s[Len(s)] # NL THEN 1 ELSE 0)

C9_SelectedInRange ==
    /\ \A d \in DirIds :
           (dirs[d].made /\ dirs[d].items # <<>>) =>
               dirs[d].selected < Len(dirs[d].items)
    /\ (widget.kind = "select" /\ widget.items > 0) =>
           widget.default < widget.items

\* C10: exec never takes an item whose is_enabled() is false as the confirmed
\* choice and never calls exec on it.
C10_DisabledNeverChosen ==
    dlast.step = "dispatch" => is_enabled(dlast.item)


\* C19: while the primitives succeed and force_clear_line is not used, after
\* any write_line, line_break, clear_last_lines, move_cursor_up and
\* move_cursor_down calls since the last reset, the row of the real cursor is
\* the row where the page started + lines_written - net_up_displacement.
C19_CursorTracked ==
    Running(term) =>
        term.cursor =
            term.page_start + term.lines_written - term.net_up_displacement

(***************************************************************************)
(* Properties of the Directory loop                                        *)
(***************************************************************************)
\* what one step of the loop does when the user backs out of the Select or
\* answers the exit confirmation
CancelStep ==
    /\ dlast'.step = "cancel" =>
           /\ Top.pc = "select"
           /\ IF dirs[Top.dir].exit_confirmation = None
              THEN /\ stack' = Return
                   /\ widget'.kind # "confirm"
              ELSE /\ stack' = SetTop("confirm")
                   /\ widget'.kind = "confirm"
                   /\ widget'.dir = Top.dir
    /\ dlast'.step = "no" =>
           /\ Top.pc = "confirm"
           /\ stack' = SetTop("loop")
           /\ dirs' = dirs
    /\ dlast'.step = "yes" =>
           /\ Top.pc = "confirm"
           /\ stack' = Return
    /\ Len(stack') < Len(stack) =>
           \/ dlast'.step = "yes"
           \/ /\ dlast'.step = "cancel"
              /\ dirs[Top.dir].exit_confirmation = None

\* C11: when the Select is cancelled, a Directory with an exit confirmation
\* asks it: "no" goes back to the top of the loop with selected unchanged,
\* "yes" ends exec and gives control back to the caller; a Directory without
\* one ends exec at once and shows no confirm widget.  exec ends in no other
\* way.
C11_CancelPaths == [][CancelStep]_vars

\* the nested Directory asked its confirmation and was told "no"
C11_Witness ==
    /\ dlast.step = "no"
    /\ Len(stack) = 2
    /\ Top.pc = "loop"

\* the calls exec has made since the Select returned
ExecCalls == {i \in 1..Len(term.calls) : term.calls[i].p = "exec"}

\* C12: when the user confirms index v, exec resets the tracked region, then
\* prints the log line without counting it, then calls exec on item v and on
\* no other item, once; the Directory shows its Select again only after that
\* call has returned: while it runs, the caller waits at the call.
C12_DispatchOrder ==
    /\ \A i \in 1..(Len(stack) - 1) :
           /\ stack[i].pc = "exec"
           /\ LET d == stack[i].dir
                  it == dirs[d].items[dirs[d].selected + 1]
              IN it = DirectoryItem(stack[i + 1].dir)
    /\ ~Idle => Top.pc # "exec"
    /\ widget.kind = "select" => (Top.pc = "select" /\ widget.dir = Top.dir)
    /\ dlast.step = "dispatch" =>
           /\ dirs[dlast.dir].selected = dlast.v
           /\ dlast.item = dirs[dlast.dir].items[dlast.v + 1]
           /\ Cardinality(ExecCalls) = 1
           /\ \A i \in ExecCalls :
                  /\ term.calls[i].n = dlast.v
                  /\ i >= 3
                  /\ term.calls[i - 1].p = "println"
                  /\ term.calls[i - 2].p = "clear_last_lines"
                  /\ \A j \in 1..(i - 1) : term.calls[j].p # "write_line"
           /\ dlast.item.kind \in {"Text", "Function", "Directory"} =>
                  term.lines_written = 0
           /\ dlast.item.kind = "Directory" =>
                  Top = [dir |-> dlast.item.dir, pc |-> "loop"]
           /\ dlast.item.kind # "Directory" =>
                  Top = [dir |-> dlast.dir, pc |-> "loop"]

\* the second item was confirmed and it is a Function
C12_Witness ==
    /\ dlast.step = "dispatch"
    /\ dlast.v = 1
    /\ dlast.item = FunctionItem
    /\ Running(term)

\* C13: the default a Directory hands to its Select is the index confirmed
\* last in that Directory, or the configured default if none was confirmed
\* yet; the Directory keeps it from one call of its exec to the next, and a
\* cancellation does not change it.
C13_DefaultIsLastChoice ==
    /\ \A d \in DirIds : dirs[d].made => dirs[d].selected = dirs[d].confirmed
    /\ widget.kind = "select" =>
           widget.default = dirs[widget.dir].confirmed

\* the nested Directory is entered again and starts on the second item, which
\* the user confirmed in an earlier call of its exec
C13_Witness ==
    /\ dlast.step = "first_display"
    /\ dlast.dir = "child"
    /\ widget.kind = "select"
    /\ widget.default = 1
    /\ dirs["child"].how = "select"

\* no Directory holds an item other than Text, Function and Directory
\* (a Toggle's exec leaves the terminal alone, as that of Text does)
PlainItems ==
    \A d \in DirIds : \A i \in 1..Len(dirs[d].items) :
        dirs[d].items[i].kind \in {"Text", "Function", "Directory"}

\* the step is a reset of the loop (after Some(v) or None)
LoopReset == dlast'.step \in {"dispatch", "cancel"} /\ dlast' # dlast

\* C17: in a menu of Text, Function and Directory items, when the Select
\* leaves exactly one row below the tracked lines, every reset of the loop
\* erases the lines written since the reset before it and that one row, and
\* no step erases or overwrites a row of the log (header, "<prompt>:
\* <choice>" lines, callback output, confirmation lines).
C17_LogSurvives ==
    [][(PlainItems /\ ~term.log_damaged /\ (LoopReset => dlast'.left = 1)) =>
          /\ ~term'.log_damaged
          /\ LoopReset =>
                 /\ term.only_written
                 /\ term'.calls[1] =
                        Call("clear_last_lines", term.written + 1, <<>>)]_vars

\* the nested Directory's Select was cancelled after leaving one row, and
\* the log above the page is whole
C17_Witness ==
    /\ PlainItems
    /\ dlast.step = "cancel"
    /\ dlast.dir = "child"
    /\ dlast.left = 1
    /\ dirs["child"].how = "select"
    /\ ~term.log_damaged

\* the step ends a call of exec
Returns == Len(stack') < Len(stack)

\* C18: whenever a Directory's exec returns, at any depth and whatever the
\* items it ran did to the terminal, both counters of the shared TrackedTerm
\* are zero.
C18_ZeroOnReturn ==
    [][Returns =>
          /\ term'.lines_written = 0
          /\ term'.net_up_displacement = 0]_vars

\* the nested Directory, which holds a Custom item, had an item confirmed;
\* then its exec returned to the root's loop
C18_Witness ==
    /\ Len(stack) = 1
    /\ Top = [dir |-> "root", pc |-> "loop"]
    /\ dlast.dir = "child"
    /\ dlast.step \in {"cancel", "yes"}
    /\ CustomItem \in {dirs["child"].items[i] :
                           i \in 1..Len(dirs["child"].items)}
    /\ dirs["child"].how = "select"
    /\ term.lines_written = 0
    /\ term.net_up_displacement = 0
    /\ Running(term)

(***************************************************************************)
(* Properties of Toggle                                                    *)
(***************************************************************************)
\* an exec call on the Toggle has just returned
ToggleExecStep ==
    toggle.made /\ Len(toggle'.shown) = Len(toggle.shown) + 1

\* C14: whatever builder calls and exec calls a Toggle has seen, its name is
\* "<title>: <true_text>" when its value is true and "<title>: <false_text>"
\* when it is false; exec negates the value and leaves both counters of the
\* TrackedTerm alone; with "yes"/"no" and value false the names shown are
\* ": no", then ": yes" after one exec, then ": no" after the next.
C14_ToggleName ==
    /\ [](toggle.made =>
             /\ Toggle_name(toggle) =
                    toggle.title \o ": " \o
                        (IF toggle.value THEN toggle.true_text
                                         ELSE toggle.false_text)
             /\ (toggle.true_text = "yes" /\ toggle.false_text = "no"
                     /\ Len(toggle.shown) = 3 /\ ~toggle.value) =>
                    toggle.shown = <<toggle.title \o ": no",
                                     toggle.title \o ": yes",
                                     toggle.title \o ": no">>)
    /\ [][ToggleExecStep =>
              /\ toggle'.value = ~toggle.value
              /\ term'.lines_written = term.lines_written
              /\ term'.net_up_displacement = term.net_up_displacement]_vars

\* a "yes"/"no" Toggle after two exec calls, handed a TrackedTerm whose
\* counters are not zero
C14_Witness ==
    /\ toggle.true_text = "yes"
    /\ toggle.false_text = "no"
    /\ toggle.shown = <<"Sound: no", "Sound: yes", "Sound: no">>
    /\ term.lines_written = 2
    /\ term.net_up_displacement = 1

(***************************************************************************)
(* Properties of Paragraph                                                 *)
(***************************************************************************)
\* the lines the operation in progress has written, in order
LinesWritten == [i \in 1..Len(term.calls) |-> term.calls[i].line]

\* C15: the exec of a Paragraph with a title and p bodies (non-empty, one
\* line each) writes the title, a blank line, each body followed by a blank
\* line, and last the footer, all as tracked lines; lines_written grows by at
\* least 2p + 3.
C15_ParagraphLines ==
    last.op = "paragraph_exec" =>
        LET p == Len(paragraph.paragraphs)
            w == LinesWritten
            n == Len(w)
        IN /\ term.lines_written >= last.pre.lines_written + 2 * p + 3
           /\ n >= 2 * p + 3
           /\ w[1] = paragraph.title
           /\ w[2] = <<>>
           /\ \A i \in 1..p :
                  /\ w[2 * i + 1] = paragraph.paragraphs[i]
                  /\ w[2 * i + 2] = <<>>
           /\ w[n] = Footer
           /\ \A i \in (2 * p + 3)..(n - 1) : w[i] = <<>>

(***************************************************************************)
(* Properties of TrackedTerm on a failing terminal                         *)
(***************************************************************************)
\* the operation op(n, text) on t
Apply(t, op, n, text) ==
    CASE op = "write_line" -> write_line(t, text)
      [] op = "line_break" -> line_break(t)
      [] op = "reset" -> reset(t)
      [] op = "force_clear_line" -> force_clear_line(t)
      [] op = "clear_last_lines" -> clear_last_lines(t, n)
      [] op = "move_cursor_up" -> move_cursor_up(t, n)
      [] op = "move_cursor_down" -> move_cursor_down(t, n)
      [] OTHER -> t

\* the operation that ran last, run from the same counters on a terminal
\* whose primitives all succeed
OnSuccess ==
    Apply([stdout EXCEPT
              !.lines_written = last.pre.lines_written,
              !.net_up_displacement = last.pre.net_up_displacement],
          last.op, last.n, last.text)

\* C16: a write, clear or move primitive that fails never makes write_line,
\* line_break, reset, clear_last_lines, force_clear_line, move_cursor_up or
\* move_cursor_down abort or return early: the operation issues the same
\* primitive calls and ends with the same counters (and the same panic, if
\* its arithmetic panics) as when every primitive succeeds.  A failing key
\* read in read_key aborts the process.
C16_FailuresIgnored ==
    /\ (last.op \in TrackedOps \cup {"force_clear_line"}) =>
           /\ term.lines_written = OnSuccess.lines_written
           /\ term.net_up_displacement = OnSuccess.net_up_displacement
           /\ term.panic = OnSuccess.panic
           /\ Len(term.calls) = Len(OnSuccess.calls)
    /\ last.op = "read_key" =>
           /\ term.lines_written = last.pre.lines_written
           /\ term.net_up_displacement = last.pre.net_up_displacement
           /\ Running(term) <=> term.failed = 0

\* write_line of two lines: the first primitive write failed, the second
\* did not, and both lines were counted
C16_Witness ==
    /\ last.op = "write_line"
    /\ Len(term.calls) = 2
    /\ term.failed = 1
    /\ term.lines_written = last.pre.lines_written + 2
    /\ Running(term)

(***************************************************************************)
(* Properties of the stdout capture                                        *)
(***************************************************************************)
\* C20: the thread hands the captured text over a bounded channel: in every
\* interleaving the number of messages sent and not yet received stays
\* within a fixed bound.  (Stated for the cap the model runs with: the queue
\* never fills it.)
C20_ChannelBounded == Len(capture.data) < MaxInFlight

(***************************************************************************)
(* Properties of diralogue!                                                *)
(***************************************************************************)
\* C21: every directory declared in a diralogue! invocation, the root and
\* the nested ones at any depth, is constructed with the options written
\* for it: the custom prompt when one is written (else the title), the given
\* default as selected, the given confirmation text, and as items exactly
\* the declared children, in order, each in its enclosing directory.
C21_OptionsCarried ==
    expansion.pc = "done" => expansion.outer = expansion.declared

====
